---------------------------- MODULE Spec2Model ----------------------------
(***************************************************************************)
(* BER simulation of BPSK / QPSK links with optional Manchester line       *)
(* coding over an AWGN channel (src/src/encoding.py, modulation.py,        *)
(* channel.py, simulation.py, main.py, and the tests under src/tests).     *)
(*                                                                         *)
(* Number representation.                                                  *)
(*  - bit buffers are numpy uint8 arrays: sequences of 0..255;             *)
(*  - real amplitudes (float64) are fixed-point integers, FP units = 1.0;  *)
(*  - a complex sample is a record [re, im]; a signal carries the tag      *)
(*    cplx that np.iscomplexobj reads;                                     *)
(*  - an SNR value k stands for k * 10*log10(2) dB, so that                *)
(*    10 ** (snr_db / 10) is exactly 2^k and the Eb/N0 -> Es/N0 offset     *)
(*    10*log10(2) is exactly one unit;                                     *)
(*  - np.random.randn(n) is a choice among the cyclic windows of           *)
(*    UnitNoise, one choice per call.                                      *)
(***************************************************************************)
EXTENDS Integers, Sequences, FiniteSets, TLC

(* ------------------------------ bounds -------------------------------- *)
\* longest bit buffer handed directly to simulate_ber_bpsk / simulate_ber_qpsk
MaxBits == 2
\* longest bit buffer drawn by the tests under src/tests
MaxTestBits == 3
\* longest SNR sweep
MaxSweep == 2
\* longest signal handed directly to add_awgn
MaxSamples == 2
\* longest message of the text round-trip test
MaxChars == 2
\* longest coded buffer handed directly to manchester_decode
MaxCoded == 4
\* longest symbol stream handed directly to bpsk_demodulate / qpsk_demodulate
MaxSymbols == 2
\* longest bit buffer and longest sweep of a simulate call with use_carrier
MaxCarrierBits == 1
MaxCarrierSweep == 1

\* values a uint8 "bit" buffer may hold (2 is an invalid bit)
BitValues == {0, 1, 2}
\* Eb/N0 values of a sweep, in units of 10*log10(2) dB
SNRChoices == {0, 3}
\* messages handed to run_full_simulation, as code points: "", "Hi", and
\* the right single quotation mark U+2019 that main.py's texts contain
Messages == {<<>>, <<72, 105>>, <<8217>>}
\* characters of the messages of the text round-trip test, as code points:
\* NUL, "H", "i", e-acute (main.py line 6) and U+2019 (main.py line 8)
TextChars == {0, 72, 105, 233, 8217}
\* outcomes of a standard-normal draw, fixed point (FP = 1.0)
UnitNoise == <<0, -15, 30>>

\* fixed-point resolution of float64 amplitudes
FP == 10

\* sample components of the signals handed directly to add_awgn
Amostras == {-FP, 0, FP}
\* components of the symbols handed directly to the demodulators: negative,
\* zero, and the smallest positive amplitude
AmostrasRx == {-FP, 0, 1}
\* SNR values handed directly to add_awgn, in units of 10*log10(2) dB
SNRDiretos == {-1, 0, 3}

SeqsUpTo(S, n) == UNION {[1..m -> S] : m \in 0..n}

(* ---------------------------- arithmetic ------------------------------ *)
Min(a, b) == IF a <= b THEN a ELSE b

\* numpy uint8 wrap-around
U8(x) == x % 256

\* division rounding toward zero
QuoT(a, b) == IF a >= 0 THEN a \div b ELSE -((-a) \div b)

RECURSIVE Pow2(_)
Pow2(k) == IF k <= 0 THEN 1 ELSE 2 * Pow2(k - 1)

RECURSIVE SqrtSearch(_, _, _)
SqrtSearch(x, lo, hi) ==
    IF lo >= hi THEN lo
    ELSE LET mid == (lo + hi + 1) \div 2
         IN  IF mid * mid <= x THEN SqrtSearch(x, mid, hi)
                               ELSE SqrtSearch(x, lo, mid - 1)

\* np.sqrt on a non-negative fixed-point square (floor)
np_sqrt(x) == SqrtSearch(x, 0, Min(x, 46340))

RECURSIVE SumSeq(_)
SumSeq(s) == IF s = <<>> THEN 0 ELSE Head(s) + SumSeq(Tail(s))

(* ----------------------------- encoding.py ---------------------------- *)
RECURSIVE BinDigits(_)
\* binary digits of n, most significant first, no leading zeros ("" for 0)
BinDigits(n) == IF n = 0 THEN <<>> ELSE Append(BinDigits(n \div 2), n % 2)

RECURSIVE ZeroPad(_, _)
ZeroPad(s, w) == IF Len(s) >= w THEN s ELSE ZeroPad(<<0>> \o s, w)

\* mutant: format(codigo_ascii, "b"), no zero fill
format_b(codigo) == BinDigits(codigo)

\* format(codigo_ascii, "08b"): at least 8 binary digits
format_08b(codigo) == ZeroPad(BinDigits(codigo), 8)

RECURSIVE text_to_bits(_)
text_to_bits(text) ==
    IF text = <<>> THEN <<>>
    ELSE format_08b(Head(text)) \o text_to_bits(Tail(text))

bits_to_text_raises(bits) == Len(bits) % 8 # 0

RECURSIVE BitOr(_, _)
\* bitwise | of two non-negative integers
BitOr(a, b) ==
    IF a = 0 THEN b
    ELSE IF b = 0 THEN a
    ELSE (IF a % 2 = 1 \/ b % 2 = 1 THEN 1 ELSE 0) + 2 * BitOr(a \div 2, b \div 2)

RECURSIVE valor_decimal(_)
\* valor_decimal = (valor_decimal << 1) | int(bit), over one byte of bits
valor_decimal(byte) ==
    IF byte = <<>> THEN 0
    ELSE LET n == Len(byte)
         IN  BitOr(2 * valor_decimal(SubSeq(byte, 1, n - 1)), byte[n])

bits_to_text(bits) ==
    [c \in 1..(Len(bits) \div 8) |-> valor_decimal(SubSeq(bits, 8 * c - 7, 8 * c))]

\* mutant: the pair is written as (b, 1 - b)
manchester_encode_swapped(bits) ==
    [k \in 1..(2 * Len(bits)) |->
        IF k % 2 = 1 THEN bits[(k + 1) \div 2]
                     ELSE U8(1 - bits[k \div 2])]

manchester_encode(bits) ==
    [k \in 1..(2 * Len(bits)) |->
        IF k % 2 = 1 THEN U8(1 - bits[(k + 1) \div 2])
                     ELSE bits[k \div 2]]

\* mutant: the length of the coded buffer is not validated
manchester_decode_raises_never(encoded) == FALSE

manchester_decode_raises(encoded) == Len(encoded) % 2 # 0

\* mutant: the bit is read off the first element, as its complement
manchester_decode_transition(encoded) ==
    [k \in 1..(Len(encoded) \div 2) |-> U8(1 - encoded[2 * k - 1])]

\* mutant: the first element of each pair is taken
manchester_decode_first(encoded) ==
    [k \in 1..(Len(encoded) \div 2) |-> encoded[2 * k - 1]]

manchester_decode(encoded) ==
    [k \in 1..(Len(encoded) \div 2) |-> encoded[2 * k]]


(* ---------------------------- modulation.py --------------------------- *)
\* np.sqrt(2.0) in fixed point
fator_normalizacao == np_sqrt(2 * FP * FP)

Real(x) == [re |-> x, im |-> 0]

\* int(fs) with fs = 10.0, the samples of one symbol
amostras_por_simbolo == 10

\* np.cos(2 * np.pi * fc * t) and np.sin(2 * np.pi * fc * t) with fc = 1.0 on
\* t = np.linspace(0, num_simbolos, num_amostras, endpoint=False): sample n
\* (from 0) is at t = n / 10; scale FP, rounded
portadora_cos(n) == <<10, 8, 3, -3, -8, -10, -8, -3, 3, 8>>[(n % 10) + 1]
portadora_sin(n) == <<0, 6, 10, 10, 6, 0, -6, -10, -10, -6>>[(n % 10) + 1]

\* np.interp(indices_samples, indices_symbols, valores) at sample n (from 0):
\* linear between two symbols, constant after the last one
interp(valores, n) ==
    LET k == n \div amostras_por_simbolo
        r == n % amostras_por_simbolo
    IN  IF k + 1 >= Len(valores) THEN valores[Len(valores)]
        ELSE QuoT(valores[k + 1] * (amostras_por_simbolo - r) + valores[k + 2] * r,
                  amostras_por_simbolo)

\* pulse_shape(symbols, int(fs), rolloff=0.35) of a non-empty stream
pulse_shape(symbols) ==
    [n \in 1..(Len(symbols.s) * amostras_por_simbolo) |->
        [re |-> interp([k \in 1..Len(symbols.s) |-> symbols.s[k].re], n - 1),
         im |-> interp([k \in 1..Len(symbols.s) |-> symbols.s[k].im], n - 1)]]

\* add_carrier(symbols, fc, fs, use_pulse_shaping=True): I*cos - Q*sin for
\* complex symbols, symbol*cos for real ones; the passband signal is real
add_carrier(symbols) ==
    LET simbolos_formatados == pulse_shape(symbols)
    IN  [cplx |-> FALSE,
         s |-> [n \in 1..Len(simbolos_formatados) |->
                  Real(QuoT(simbolos_formatados[n].re * portadora_cos(n - 1), FP)
                       - (IF symbols.cplx
                          THEN QuoT(simbolos_formatados[n].im * portadora_sin(n - 1), FP)
                          ELSE 0))]]

\* lowpass_filter: np.convolve(x, ones(10)/10, mode='same') at sample n (from
\* 1) of a signal of at least 10 samples: the mean over n-5 .. n+4, samples
\* outside the signal counting as zero
lowpass_filter(x, n) ==
    QuoT(SumSeq([j \in 1..amostras_por_simbolo |->
                   LET m == n - 6 + j
                   IN  IF m >= 1 /\ m <= Len(x) THEN x[m] ELSE 0]),
         amostras_por_simbolo)

\* remove_carrier(signal, fc, fs, use_filtering=True): mix with cos and -sin,
\* filter, keep one sample per symbol, return I + jQ
remove_carrier(signal) ==
    LET num_simbolos == Len(signal.s) \div amostras_por_simbolo
        componente_i == [n \in 1..Len(signal.s) |->
                            QuoT(signal.s[n].re * portadora_cos(n - 1), FP)]
        componente_q == [n \in 1..Len(signal.s) |->
                            -QuoT(signal.s[n].re * portadora_sin(n - 1), FP)]
    IN  [cplx |-> TRUE,
         s |-> [k \in 1..num_simbolos |->
                  [re |-> lowpass_filter(componente_i,
                                         (k - 1) * amostras_por_simbolo + 1),
                   im |-> lowpass_filter(componente_q,
                                         (k - 1) * amostras_por_simbolo + 1)]]]

\* np.real(simbolos_recebidos) when np.iscomplexobj(simbolos_recebidos)
np_real(signal) ==
    IF signal.cplx
    THEN [cplx |-> FALSE, s |-> [k \in 1..Len(signal.s) |-> Real(signal.s[k].re)]]
    ELSE signal


bpsk_modulate(bits) ==
    [cplx |-> FALSE,
     s    |-> [k \in 1..Len(bits) |-> Real((2 * bits[k] - 1) * FP)]]

\* mutant: inverted threshold decision
bpsk_demodulate_inv(symbols) ==
    [k \in 1..Len(symbols.s) |-> IF symbols.s[k].re < 0 THEN 1 ELSE 0]

\* mutant: a symbol equal to zero decides bit 0
bpsk_demodulate_strict(symbols) ==
    [k \in 1..Len(symbols.s) |-> IF symbols.s[k].re > 0 THEN 1 ELSE 0]

bpsk_demodulate(symbols) ==
    [k \in 1..Len(symbols.s) |-> IF symbols.s[k].re >= 0 THEN 1 ELSE 0]

\* mutant: the padding bit is a one
qpsk_bits_entrada_one(bits) == IF Len(bits) % 2 # 0 THEN Append(bits, 1) ELSE bits

\* bits_entrada after the optional zero padding
qpsk_bits_entrada(bits) == IF Len(bits) % 2 # 0 THEN Append(bits, 0) ELSE bits

\* mutant: no padding is ever recorded
qpsk_padding_bits_zero(bits) == 0

qpsk_padding_bits(bits) == IF Len(bits) % 2 # 0 THEN 1 ELSE 0

\* the else branch of the Gray mapping: raise ValueError("bits devem ser 0 ou 1")
qpsk_modulate_raises(bits) ==
    \E k \in 1..Len(qpsk_bits_entrada(bits)) : qpsk_bits_entrada(bits)[k] \notin {0, 1}

\* Gray mapping of one pair, before normalisation
\* mutant: natural binary labelling, (1,0) and (1,1) exchanged
qpsk_ponto_binario(bit0, bit1) ==
    IF bit0 = 0 /\ bit1 = 0 THEN [re |-> 1, im |-> 1]
    ELSE IF bit0 = 0 /\ bit1 = 1 THEN [re |-> -1, im |-> 1]
    ELSE IF bit0 = 1 /\ bit1 = 0 THEN [re |-> -1, im |-> -1]
    ELSE [re |-> 1, im |-> -1]

qpsk_ponto(bit0, bit1) ==
    IF bit0 = 0 /\ bit1 = 0 THEN [re |-> 1, im |-> 1]
    ELSE IF bit0 = 0 /\ bit1 = 1 THEN [re |-> -1, im |-> 1]
    ELSE IF bit0 = 1 /\ bit1 = 1 THEN [re |-> -1, im |-> -1]
    ELSE [re |-> 1, im |-> -1]

\* mutant: the symbols are left at (+/-1 +/-1j)
qpsk_normaliza_none(p) == [re |-> p.re * FP, im |-> p.im * FP]

\* simbolos_modulados /= fator_normalizacao
qpsk_normaliza(p) ==
    [re |-> QuoT(p.re * FP * FP, fator_normalizacao),
     im |-> QuoT(p.im * FP * FP, fator_normalizacao)]

qpsk_modulate(bits) ==
    LET b == qpsk_bits_entrada(bits)
    IN  [symbols |-> [cplx |-> TRUE,
                      s |-> [k \in 1..(Len(b) \div 2) |->
                                qpsk_normaliza(qpsk_ponto(b[2 * k - 1], b[2 * k]))]],
         padding |-> qpsk_padding_bits(bits)]

\* mutant: the two lower quadrants decide each other's pair
qpsk_decide_natural(parte_real, parte_imag) ==
    IF parte_real >= 0 /\ parte_imag >= 0 THEN <<0, 0>>
    ELSE IF parte_real < 0 /\ parte_imag >= 0 THEN <<0, 1>>
    ELSE IF parte_real < 0 /\ parte_imag < 0 THEN <<1, 0>>
    ELSE <<1, 1>>

\* mutant: a component equal to zero is decided as a negative one
qpsk_decide_strict(parte_real, parte_imag) ==
    IF parte_real > 0 /\ parte_imag > 0 THEN <<0, 0>>
    ELSE IF parte_real <= 0 /\ parte_imag > 0 THEN <<0, 1>>
    ELSE IF parte_real <= 0 /\ parte_imag <= 0 THEN <<1, 1>>
    ELSE <<1, 0>>

\* mutant: the two bits of every pair change places
qpsk_decide_swapped(parte_real, parte_imag) ==
    IF parte_real >= 0 /\ parte_imag >= 0 THEN <<0, 0>>
    ELSE IF parte_real < 0 /\ parte_imag >= 0 THEN <<1, 0>>
    ELSE IF parte_real < 0 /\ parte_imag < 0 THEN <<1, 1>>
    ELSE <<0, 1>>

\* decision of one de-normalised symbol
qpsk_decide(parte_real, parte_imag) ==
    IF parte_real >= 0 /\ parte_imag >= 0 THEN <<0, 0>>
    ELSE IF parte_real < 0 /\ parte_imag >= 0 THEN <<0, 1>>
    ELSE IF parte_real < 0 /\ parte_imag < 0 THEN <<1, 1>>
    ELSE <<1, 0>>

\* mutant: the padding is never removed
qpsk_strip_none(bits_demodulados, padding) == bits_demodulados

\* bits_demodulados[:-padding] when padding > 0
qpsk_strip(bits_demodulados, padding) ==
    IF padding > 0
    THEN SubSeq(bits_demodulados, 1, Len(bits_demodulados) - padding)
    ELSE bits_demodulados

qpsk_demodulate(symbols, padding) ==
    LET des(k)  == [re |-> QuoT(symbols.s[k].re * fator_normalizacao, FP),
                    im |-> QuoT(symbols.s[k].im * fator_normalizacao, FP)]
        todos   == [j \in 1..(2 * Len(symbols.s)) |->
                       qpsk_decide(des((j + 1) \div 2).re,
                                   des((j + 1) \div 2).im)[2 - (j % 2)]]
    IN  qpsk_strip(todos, padding)

(* ------------------------------ channel.py ---------------------------- *)
\* np.random.randn(n): the window of UnitNoise starting at offset o
Randn(o, n) == [j \in 1..n |-> UnitNoise[((o + j - 2) % Len(UnitNoise)) + 1]]

\* np.mean(np.abs(sinal_entrada) ** 2), scale FP * FP
potencia_sinal(signal) ==
    SumSeq([k \in 1..Len(signal.s) |->
               signal.s[k].re * signal.s[k].re + signal.s[k].im * signal.s[k].im])
        \div Len(signal.s)

\* mutant: the zero-power case is not singled out
potencia_nula_never(signal) == FALSE

\* if potencia_sinal == 0 (the mean of an empty array is nan, which is not 0)
potencia_nula(signal) == Len(signal.s) > 0 /\ potencia_sinal(signal) = 0

\* potencia_sinal / 10 ** (snr_db / 10)
potencia_ruido(signal, snr_db) ==
    IF snr_db >= 0 THEN potencia_sinal(signal) \div Pow2(snr_db)
                   ELSE potencia_sinal(signal) * Pow2(-snr_db)

\* mutant: a complex signal gets the whole noise power on each component
desvio_padrao_ruido_total(signal, snr_db) ==
    np_sqrt(potencia_ruido(signal, snr_db))

desvio_padrao_ruido(signal, snr_db) ==
    IF signal.cplx THEN np_sqrt(potencia_ruido(signal, snr_db) \div 2)
                   ELSE np_sqrt(potencia_ruido(signal, snr_db))

\* the second np.random.randn call is made for a complex signal only
janelas_imag(signal) == IF signal.cplx THEN 1..Len(UnitNoise) ELSE {1}

\* add_awgn with the unit samples that randn returned
add_awgn(signal, snr_db, ruido_real, ruido_imag) ==
    IF potencia_nula(signal) THEN signal
    ELSE LET dp == desvio_padrao_ruido(signal, snr_db)
         IN  [cplx |-> signal.cplx,
              s |-> [k \in 1..Len(signal.s) |->
                       [re |-> signal.s[k].re + QuoT(dp * ruido_real[k], FP),
                        im |-> IF signal.cplx
                               THEN signal.s[k].im + QuoT(dp * ruido_imag[k], FP)
                               ELSE 0]]]

(* ----------------------------- simulation.py -------------------------- *)
\* 10 * np.log10(2), in units of 10*log10(2) dB
fator_manchester_db == 1
fator_qpsk_db == 1

\* mutant: no guard for an empty comparison
bit_error_rate_noguard(original, received) ==
    LET n == Min(Len(original), Len(received))
        e == Cardinality({k \in 1..n : U8(original[k]) # U8(received[k])})
    IN  [ber |-> <<e, n>>, erros |-> e, total |-> n]

\* mutant: bits missing from the shorter buffer are counted as errors
bit_error_rate_missing(original, received) ==
    LET n == Min(Len(original), Len(received))
        m == IF Len(original) >= Len(received) THEN Len(original) ELSE Len(received)
        e == Cardinality({k \in 1..n : U8(original[k]) # U8(received[k])}) + (m - n)
    IN  IF n = 0
        THEN [ber |-> <<0, 1>>, erros |-> 0, total |-> 0]
        ELSE [ber |-> <<e, n>>, erros |-> e, total |-> n]

\* BER as the exact fraction <<numerator, denominator>>; 0.0 is <<0, 1>>
bit_error_rate(original, received) ==
    LET tamanho_comparacao == Min(Len(original), Len(received))
        numero_de_erros ==
            Cardinality({k \in 1..tamanho_comparacao : U8(original[k]) # U8(received[k])})
    IN  IF tamanho_comparacao = 0
        THEN [ber |-> <<0, 1>>, erros |-> 0, total |-> 0]
        ELSE [ber |-> <<numero_de_erros, tamanho_comparacao>>,
              erros |-> numero_de_erros, total |-> tamanho_comparacao]

\* mutant: the newest BER is put in front of the list
resultados_ber_prepend(lista, ber) == <<ber>> \o lista

\* resultados_ber.append(ber)
resultados_ber_append(lista, ber) == Append(lista, ber)

\* Eb/N0 -> Es/N0 in simulate_ber_bpsk
bpsk_snr_es_n0_db(snr_eb_n0_db, manchester) ==
    IF manchester THEN snr_eb_n0_db - fator_manchester_db ELSE snr_eb_n0_db

\* Eb/N0 -> Es/N0 in simulate_ber_qpsk
qpsk_snr_es_n0_db(snr_eb_n0_db, manchester) ==
    IF manchester THEN snr_eb_n0_db ELSE snr_eb_n0_db + fator_qpsk_db

\* mutant: the except clause lets the exception through
except_captura_none(exc) == FALSE

\* the bare "except:" around bits_to_text catches every exception
except_captura(exc) == TRUE

\* the try/except around bits_to_text: the text (cut to 50 characters and
\* "..." when longer), or the placeholder
ErroDecodificar == "[Erro ao decodificar - muitos erros]"
mensagem_de(bits_rx) ==
    IF bits_to_text_raises(bits_rx) THEN ErroDecodificar
    ELSE LET mensagem_recebida == bits_to_text(bits_rx)
         IN  IF Len(mensagem_recebida) > 50
             THEN SubSeq(mensagem_recebida, 1, 50) \o <<46, 46, 46>>
             ELSE mensagem_recebida

(* ------------------------------- state -------------------------------- *)
VARIABLES
    entry,                 \* the callable under execution (see Entries)
    pc,                    \* position inside it
    raised,                \* exception that left the entry call, or "none"
    message,               \* run_full_simulation: message (code points)
    snr_db_values,         \* the SNR sweep (Eb/N0)
    bits,                  \* the caller's bit array
    use_manchester,
    use_carrier,
    scheme,                \* "bpsk" | "qpsk": which simulate_ber_* is running
    bits_originais,
    bits_para_transmitir,
    idx,                   \* position of the for loop in snr_db_values
    simbolos_banda_base,
    padding_bits,
    sinal_passabanda,      \* add_carrier: the passband signal it returned
    snr_es_n0_db,
    canal_snr_db,          \* add_awgn: the snr_db argument it received
    ruido_unit,            \* add_awgn: the randn samples it drew
    sinal_com_ruido,
    simbolos_demodulados,  \* remove_carrier: the symbols it returned
    bits_demodulados,
    bits_recebidos,
    medida,                \* (ber, numero_erros, total_bits) of the last compare
    mensagem_display,
    resultados_ber,
    resultados_ber_bpsk,
    resultados_ber_qpsk,
    arquivos,              \* files written by run_full_simulation, in order
    retorno                \* value returned by run_full_simulation

vars == <<entry, pc, raised, message, snr_db_values, bits, use_manchester,
          use_carrier, scheme, sinal_passabanda, simbolos_demodulados,
          bits_originais, bits_para_transmitir, idx, simbolos_banda_base,
          padding_bits, snr_es_n0_db, canal_snr_db, ruido_unit, sinal_com_ruido,
          bits_demodulados, bits_recebidos, medida, mensagem_display,
          resultados_ber, resultados_ber_bpsk, resultados_ber_qpsk, arquivos,
          retorno>>

carrier_vars == <<sinal_passabanda, simbolos_demodulados>>

sim_vars == <<bits_originais, bits_para_transmitir, idx, simbolos_banda_base,
              padding_bits, snr_es_n0_db, canal_snr_db, ruido_unit,
              sinal_com_ruido, bits_demodulados, bits_recebidos, medida,
              mensagem_display, resultados_ber, carrier_vars>>

in_vars == <<entry, message, snr_db_values, use_manchester, use_carrier>>

SimEntries  == {"simulate_ber_bpsk", "simulate_ber_qpsk"}
TestEntries == {"test_manchester_roundtrip", "test_bpsk_no_noise", "test_qpsk_no_noise"}
Entries     == {"main", "run_full_simulation", "bit_error_rate", "add_awgn",
                "manchester_decode", "bpsk_demodulate", "qpsk_demodulate",
                "test_text_bits_roundtrip"}
                   \cup SimEntries \cup TestEntries

NoSignal == [cplx |-> FALSE, s |-> <<>>]
NoNoise  == [re |-> <<>>, im |-> <<>>]
NoMedida == [ber |-> <<0, 1>>, erros |-> 0, total |-> 0]

Blank0 ==
    /\ pc = "call" /\ raised = "none"
    /\ bits_para_transmitir = <<>> /\ idx = 0
    /\ simbolos_banda_base = NoSignal /\ padding_bits = 0
    /\ snr_es_n0_db = 0 /\ canal_snr_db = 0 /\ ruido_unit = NoNoise
    /\ sinal_com_ruido = NoSignal /\ bits_demodulados = <<>>
    /\ medida = NoMedida /\ mensagem_display = <<>>
    /\ resultados_ber = <<>> /\ resultados_ber_bpsk = <<>>
    /\ resultados_ber_qpsk = <<>> /\ arquivos = <<>> /\ retorno = <<>>
    /\ sinal_passabanda = NoSignal /\ simbolos_demodulados = NoSignal

Blank == Blank0 /\ bits_originais = <<>> /\ bits_recebidos = <<>>

\* main() and run_full_simulation(message, snr_db_values)
InitRun ==
    /\ entry \in {"main", "run_full_simulation"}
    /\ message \in Messages
    /\ snr_db_values \in SeqsUpTo(SNRChoices, MaxSweep)
    /\ bits = <<>> /\ use_manchester = TRUE /\ use_carrier = FALSE
    /\ scheme = "bpsk"
    /\ Blank

\* simulate_ber_bpsk / simulate_ber_qpsk (bits, snr_db_values, use_manchester)
InitSim ==
    /\ entry \in SimEntries
    /\ scheme = (IF entry = "simulate_ber_bpsk" THEN "bpsk" ELSE "qpsk")
    /\ message = <<>>
    /\ snr_db_values \in SeqsUpTo(SNRChoices, MaxSweep)
    /\ bits \in SeqsUpTo(BitValues, MaxBits)
    /\ use_manchester \in BOOLEAN
    /\ use_carrier = FALSE
    /\ Blank

\* simulate_ber_bpsk / simulate_ber_qpsk with use_carrier=True (fc = 1.0,
\* fs = 10.0), on a non-empty buffer of bits
InitCarrier ==
    /\ entry \in SimEntries
    /\ scheme = (IF entry = "simulate_ber_bpsk" THEN "bpsk" ELSE "qpsk")
    /\ message = <<>>
    /\ snr_db_values \in SeqsUpTo(SNRChoices, MaxCarrierSweep)
    /\ bits \in SeqsUpTo({0, 1}, MaxCarrierBits) \ {<<>>}
    /\ use_manchester \in BOOLEAN
    /\ use_carrier = TRUE
    /\ Blank

\* the tests draw bits with rng.integers(0, 2, size)
InitTest ==
    /\ entry \in TestEntries
    /\ scheme = (IF entry = "test_qpsk_no_noise" THEN "qpsk" ELSE "bpsk")
    /\ message = <<>> /\ snr_db_values = <<>>
    /\ bits \in SeqsUpTo({0, 1}, MaxTestBits)
    /\ use_manchester = (entry = "test_manchester_roundtrip")
    /\ use_carrier = FALSE
    /\ Blank

\* bit_error_rate(original, received) called on its own
InitBer ==
    /\ entry = "bit_error_rate"
    /\ scheme = "bpsk" /\ message = <<>> /\ snr_db_values = <<>>
    /\ bits = <<>> /\ use_manchester = FALSE /\ use_carrier = FALSE
    /\ bits_originais \in SeqsUpTo(BitValues, MaxBits)
    /\ bits_recebidos \in SeqsUpTo(BitValues, MaxBits)
    /\ Blank0

\* add_awgn(signal, snr_db) called on its own, real or complex signal
InitAwgn ==
    /\ entry = "add_awgn"
    /\ scheme = "bpsk" /\ message = <<>> /\ snr_db_values = <<>>
    /\ bits = <<>> /\ use_manchester = FALSE /\ use_carrier = FALSE
    /\ pc = "call" /\ raised = "none"
    /\ sinal_passabanda = NoSignal /\ simbolos_demodulados = NoSignal
    /\ bits_originais = <<>> /\ bits_para_transmitir = <<>> /\ idx = 0
    /\ \E c \in BOOLEAN :
          \E s \in SeqsUpTo([re : Amostras, im : IF c THEN Amostras ELSE {0}],
                             MaxSamples) :
              simbolos_banda_base = [cplx |-> c, s |-> s]
    /\ padding_bits = 0
    /\ snr_es_n0_db \in SNRDiretos
    /\ canal_snr_db = 0 /\ ruido_unit = NoNoise
    /\ sinal_com_ruido = NoSignal /\ bits_demodulados = <<>>
    /\ bits_recebidos = <<>> /\ medida = NoMedida /\ mensagem_display = <<>>
    /\ resultados_ber = <<>> /\ resultados_ber_bpsk = <<>>
    /\ resultados_ber_qpsk = <<>> /\ arquivos = <<>> /\ retorno = <<>>

\* test_text_bits_roundtrip, over the messages of TextChars
InitText ==
    /\ entry = "test_text_bits_roundtrip"
    /\ scheme = "bpsk" /\ snr_db_values = <<>>
    /\ message \in SeqsUpTo(TextChars, MaxChars)
    /\ bits = <<>> /\ use_manchester = FALSE /\ use_carrier = FALSE
    /\ Blank

\* manchester_decode(encoded) called on its own
InitDecode ==
    /\ entry = "manchester_decode"
    /\ scheme = "bpsk" /\ message = <<>> /\ snr_db_values = <<>>
    /\ bits = <<>> /\ use_manchester = TRUE /\ use_carrier = FALSE
    /\ pc = "call" /\ raised = "none"
    /\ sinal_passabanda = NoSignal /\ simbolos_demodulados = NoSignal
    /\ bits_originais = <<>> /\ bits_para_transmitir = <<>> /\ idx = 0
    /\ simbolos_banda_base = NoSignal /\ padding_bits = 0
    /\ snr_es_n0_db = 0 /\ canal_snr_db = 0 /\ ruido_unit = NoNoise
    /\ sinal_com_ruido = NoSignal
    /\ bits_demodulados \in SeqsUpTo(BitValues, MaxCoded)
    /\ bits_recebidos = <<>> /\ medida = NoMedida /\ mensagem_display = <<>>
    /\ resultados_ber = <<>> /\ resultados_ber_bpsk = <<>>
    /\ resultados_ber_qpsk = <<>> /\ arquivos = <<>> /\ retorno = <<>>

\* bpsk_demodulate(symbols) / qpsk_demodulate(symbols, padding) called on
\* their own
InitDemod ==
    /\ entry \in {"bpsk_demodulate", "qpsk_demodulate"}
    /\ scheme = (IF entry = "bpsk_demodulate" THEN "bpsk" ELSE "qpsk")
    /\ message = <<>> /\ snr_db_values = <<>>
    /\ bits = <<>> /\ use_manchester = FALSE /\ use_carrier = FALSE
    /\ pc = "call" /\ raised = "none"
    /\ sinal_passabanda = NoSignal /\ simbolos_demodulados = NoSignal
    /\ bits_originais = <<>> /\ bits_para_transmitir = <<>> /\ idx = 0
    /\ simbolos_banda_base = NoSignal
    /\ padding_bits \in (IF entry = "qpsk_demodulate" THEN {0, 1} ELSE {0})
    /\ snr_es_n0_db = 0 /\ canal_snr_db = 0 /\ ruido_unit = NoNoise
    /\ \E s \in SeqsUpTo([re : AmostrasRx,
                           im : IF entry = "qpsk_demodulate" THEN AmostrasRx ELSE {0}],
                          MaxSymbols) :
          sinal_com_ruido = [cplx |-> (entry = "qpsk_demodulate"), s |-> s]
    /\ bits_demodulados = <<>>
    /\ bits_recebidos = <<>> /\ medida = NoMedida /\ mensagem_display = <<>>
    /\ resultados_ber = <<>> /\ resultados_ber_bpsk = <<>>
    /\ resultados_ber_qpsk = <<>> /\ arquivos = <<>> /\ retorno = <<>>

Init ==
    \/ InitRun \/ InitSim \/ InitTest \/ InitBer \/ InitAwgn \/ InitText
    \/ InitDecode \/ InitDemod \/ InitCarrier

(* ------------------------------- main.py ------------------------------ *)
\* keyword arguments of the call in main()
MainKwargs == {"iterations", "message", "output_dir"}
\* parameters of run_full_simulation
RunFullParams == {"message", "snr_db_values", "output_dir"}

\* main(): run_full_simulation(iterations=50, message=..., output_dir=...);
\* a keyword the callee does not declare raises TypeError at the call
MainCall ==
    /\ entry = "main" /\ pc = "call"
    /\ IF MainKwargs \subseteq RunFullParams
       THEN pc' = "rfs_call" /\ raised' = raised
       ELSE pc' = "raised" /\ raised' = "TypeError"
    /\ UNCHANGED <<in_vars, bits, scheme, sim_vars, resultados_ber_bpsk,
                   resultados_ber_qpsk, arquivos, retorno>>

(* ------------------------- run_full_simulation ------------------------ *)
\* bits_originais = text_to_bits(message), then the BPSK simulation is called
RunFullStart ==
    /\ entry \in {"main", "run_full_simulation"}
    /\ pc = (IF entry = "main" THEN "rfs_call" ELSE "call")
    /\ bits' = text_to_bits(message)
    /\ scheme' = "bpsk"
    /\ pc' = "sim_call"
    /\ UNCHANGED <<in_vars, raised, sim_vars, resultados_ber_bpsk,
                   resultados_ber_qpsk, arquivos, retorno>>

\* mutant: the results table is written once the BPSK simulation has returned
RunFullWrite_early ==
    /\ pc = "sim_call" /\ scheme = "qpsk"
    /\ arquivos' = Append(arquivos, "ber_results_bpsk_qpsk.txt")
    /\ pc' = "rfs_plot"
    /\ UNCHANGED <<in_vars, raised, bits, scheme, sim_vars, resultados_ber_bpsk,
                   resultados_ber_qpsk, retorno>>

\* the results table is written
RunFullWrite ==
    /\ pc = "rfs_write"
    /\ arquivos' = Append(arquivos, "ber_results_bpsk_qpsk.txt")
    /\ pc' = "rfs_plot"
    /\ UNCHANGED <<in_vars, raised, bits, scheme, sim_vars, resultados_ber_bpsk,
                   resultados_ber_qpsk, retorno>>

\* the chart is saved and (array_snr, array_ber_bpsk, array_ber_qpsk) returned
RunFullPlot ==
    /\ pc = "rfs_plot"
    /\ arquivos' = Append(arquivos, "ber_curve_bpsk_qpsk.png")
    /\ retorno' = <<snr_db_values, resultados_ber_bpsk, resultados_ber_qpsk>>
    /\ pc' = "done"
    /\ UNCHANGED <<in_vars, raised, bits, scheme, sim_vars, resultados_ber_bpsk,
                   resultados_ber_qpsk>>

(* ----------------- simulate_ber_bpsk / simulate_ber_qpsk -------------- *)
\* mutant: the line code is written over the caller's array
SimBegin_inplace ==
    /\ entry \in SimEntries \cup {"main", "run_full_simulation"}
    /\ pc = (IF entry \in SimEntries THEN "call" ELSE "sim_call")
    /\ bits_originais' = bits
    /\ bits_para_transmitir' =
           (IF use_manchester THEN manchester_encode(bits) ELSE bits)
    /\ bits' = bits_para_transmitir'
    /\ resultados_ber' = <<>>
    /\ idx' = 1
    /\ pc' = "loop"
    /\ UNCHANGED <<in_vars, carrier_vars, raised, scheme, simbolos_banda_base,
                   padding_bits, snr_es_n0_db, canal_snr_db, ruido_unit,
                   sinal_com_ruido, bits_demodulados, bits_recebidos, medida,
                   mensagem_display, resultados_ber_bpsk, resultados_ber_qpsk,
                   arquivos, retorno>>

\* PASSO 1: bits.copy() and the optional Manchester encoding
SimBegin ==
    /\ entry \in SimEntries \cup {"main", "run_full_simulation"}
    /\ pc = (IF entry \in SimEntries THEN "call" ELSE "sim_call")
    /\ bits_originais' = bits
    /\ bits_para_transmitir' =
           (IF use_manchester THEN manchester_encode(bits) ELSE bits)
    /\ resultados_ber' = <<>>
    /\ idx' = 1
    /\ pc' = "loop"
    /\ UNCHANGED <<in_vars, carrier_vars, raised, bits, scheme, simbolos_banda_base,
                   padding_bits, snr_es_n0_db, canal_snr_db, ruido_unit,
                   sinal_com_ruido, bits_demodulados, bits_recebidos, medida,
                   mensagem_display, resultados_ber_bpsk, resultados_ber_qpsk,
                   arquivos, retorno>>

\* if use_carrier: (PASSO 2.5) the stage that follows the modulator
apos_modular == IF use_carrier THEN "carrier" ELSE "convert"

\* mutant: the carrier is never removed
apos_canal_direto == "demod"

\* if use_carrier: (PASSO 4.5) the stage that follows the channel
apos_canal == IF use_carrier THEN "uncarrier" ELSE "demod"

\* sinal_transmitido: add_carrier's result, or simbolos_banda_base itself
sinal_transmitido ==
    IF use_carrier THEN sinal_passabanda ELSE simbolos_banda_base

\* simbolos_recebidos: remove_carrier's result, or sinal_com_ruido itself
simbolos_recebidos ==
    IF use_carrier THEN simbolos_demodulados ELSE sinal_com_ruido

\* PASSO 2 (BPSK)
BpskModulate ==
    /\ pc = "loop" /\ scheme = "bpsk" /\ idx <= Len(snr_db_values)
    /\ simbolos_banda_base' = bpsk_modulate(bits_para_transmitir)
    /\ pc' = apos_modular
    /\ UNCHANGED <<in_vars, carrier_vars, raised, bits, scheme, bits_originais,
                   bits_para_transmitir, idx, padding_bits, snr_es_n0_db,
                   canal_snr_db, ruido_unit, sinal_com_ruido, bits_demodulados,
                   bits_recebidos, medida, mensagem_display, resultados_ber,
                   resultados_ber_bpsk, resultados_ber_qpsk, arquivos, retorno>>

\* PASSO 2 (QPSK): the ValueError of qpsk_modulate leaves simulate_ber_qpsk
QpskModulate ==
    /\ pc = "loop" /\ scheme = "qpsk" /\ idx <= Len(snr_db_values)
    /\ IF qpsk_modulate_raises(bits_para_transmitir)
       THEN /\ pc' = "raised" /\ raised' = "ValueError"
            /\ UNCHANGED <<simbolos_banda_base, padding_bits>>
       ELSE /\ simbolos_banda_base' = qpsk_modulate(bits_para_transmitir).symbols
            /\ padding_bits' = qpsk_modulate(bits_para_transmitir).padding
            /\ pc' = apos_modular /\ raised' = raised
    /\ UNCHANGED <<in_vars, carrier_vars, bits, scheme, bits_originais, bits_para_transmitir,
                   idx, snr_es_n0_db, canal_snr_db, ruido_unit, sinal_com_ruido,
                   bits_demodulados, bits_recebidos, medida, mensagem_display,
                   resultados_ber, resultados_ber_bpsk, resultados_ber_qpsk,
                   arquivos, retorno>>

\* PASSO 3: Eb/N0 -> Es/N0
ConvertSNR ==
    /\ pc = "convert"
    /\ snr_es_n0_db' =
           (IF scheme = "bpsk"
            THEN bpsk_snr_es_n0_db(snr_db_values[idx], use_manchester)
            ELSE qpsk_snr_es_n0_db(snr_db_values[idx], use_manchester))
    /\ pc' = "awgn"
    /\ UNCHANGED <<in_vars, carrier_vars, raised, bits, scheme, bits_originais,
                   bits_para_transmitir, idx, simbolos_banda_base, padding_bits,
                   canal_snr_db, ruido_unit, sinal_com_ruido, bits_demodulados,
                   bits_recebidos, medida, mensagem_display, resultados_ber,
                   resultados_ber_bpsk, resultados_ber_qpsk, arquivos, retorno>>

\* mutant: the bit-level Eb/N0 is handed to the channel
snr_do_canal_eb == snr_db_values[idx]

\* the SNR argument of the add_awgn call
snr_do_canal == snr_es_n0_db

\* PASSO 4: sinal_com_ruido = add_awgn(sinal_transmitido, snr_es_n0_db);
\* randn is called once for a real signal and twice for a complex one
Channel ==
    /\ pc = "awgn"
    /\ \E o_re \in 1..Len(UnitNoise), o_im \in janelas_imag(sinal_transmitido) :
          LET n == Len(sinal_transmitido.s)
              sorteio == [re |-> Randn(o_re, n),
                          im |-> IF sinal_transmitido.cplx THEN Randn(o_im, n)
                                                             ELSE <<>>]
          IN  /\ canal_snr_db' = snr_do_canal
              /\ ruido_unit' = (IF potencia_nula(sinal_transmitido)
                                THEN ruido_unit ELSE sorteio)
              /\ sinal_com_ruido' =
                     add_awgn(sinal_transmitido, snr_do_canal, sorteio.re, sorteio.im)
    /\ pc' = apos_canal
    /\ UNCHANGED <<in_vars, carrier_vars, raised, bits, scheme, bits_originais,
                   bits_para_transmitir, idx, simbolos_banda_base, padding_bits,
                   snr_es_n0_db, bits_demodulados, bits_recebidos, medida,
                   mensagem_display, resultados_ber, resultados_ber_bpsk,
                   resultados_ber_qpsk, arquivos, retorno>>

\* PASSO 2.5: sinal_transmitido = add_carrier(simbolos_banda_base, fc, fs)
AddCarrier ==
    /\ pc = "carrier"
    /\ sinal_passabanda' = add_carrier(simbolos_banda_base)
    /\ pc' = "convert"
    /\ UNCHANGED <<in_vars, raised, bits, scheme, bits_originais,
                   bits_para_transmitir, idx, simbolos_banda_base, padding_bits,
                   snr_es_n0_db, canal_snr_db, ruido_unit, sinal_com_ruido,
                   simbolos_demodulados, bits_demodulados, bits_recebidos,
                   medida, mensagem_display, resultados_ber,
                   resultados_ber_bpsk, resultados_ber_qpsk, arquivos, retorno>>

\* PASSO 4.5: simbolos_recebidos = remove_carrier(sinal_com_ruido, fc, fs)
RemoveCarrier ==
    /\ pc = "uncarrier"
    /\ simbolos_demodulados' = remove_carrier(sinal_com_ruido)
    /\ pc' = "demod"
    /\ UNCHANGED <<in_vars, raised, bits, scheme, bits_originais,
                   bits_para_transmitir, idx, simbolos_banda_base, padding_bits,
                   snr_es_n0_db, canal_snr_db, ruido_unit, sinal_com_ruido,
                   sinal_passabanda, bits_demodulados, bits_recebidos,
                   medida, mensagem_display, resultados_ber,
                   resultados_ber_bpsk, resultados_ber_qpsk, arquivos, retorno>>

\* PASSO 5 (BPSK): np.real of a complex stream, then the threshold decision
BpskDemodulate ==
    /\ pc = "demod" /\ scheme = "bpsk"
    /\ bits_demodulados' = bpsk_demodulate(np_real(simbolos_recebidos))
    /\ pc' = "decode"
    /\ UNCHANGED <<in_vars, carrier_vars, raised, bits, scheme, bits_originais,
                   bits_para_transmitir, idx, simbolos_banda_base, padding_bits,
                   snr_es_n0_db, canal_snr_db, ruido_unit, sinal_com_ruido,
                   bits_recebidos, medida, mensagem_display, resultados_ber,
                   resultados_ber_bpsk, resultados_ber_qpsk, arquivos, retorno>>

\* PASSO 5 (QPSK)
QpskDemodulate ==
    /\ pc = "demod" /\ scheme = "qpsk"
    /\ bits_demodulados' = qpsk_demodulate(simbolos_recebidos, padding_bits)
    /\ pc' = "decode"
    /\ UNCHANGED <<in_vars, carrier_vars, raised, bits, scheme, bits_originais,
                   bits_para_transmitir, idx, simbolos_banda_base, padding_bits,
                   snr_es_n0_db, canal_snr_db, ruido_unit, sinal_com_ruido,
                   bits_recebidos, medida, mensagem_display, resultados_ber,
                   resultados_ber_bpsk, resultados_ber_qpsk, arquivos, retorno>>

\* PASSO 6: the ValueError of manchester_decode leaves the simulate call
LineDecode ==
    /\ pc = "decode"
    /\ IF use_manchester /\ manchester_decode_raises(bits_demodulados)
       THEN /\ pc' = "raised" /\ raised' = "ValueError"
            /\ UNCHANGED bits_recebidos
       ELSE /\ bits_recebidos' =
                  (IF use_manchester THEN manchester_decode(bits_demodulados)
                                     ELSE bits_demodulados)
            /\ pc' = "compare" /\ raised' = raised
    /\ UNCHANGED <<in_vars, carrier_vars, bits, scheme, bits_originais, bits_para_transmitir,
                   idx, simbolos_banda_base, padding_bits, snr_es_n0_db,
                   canal_snr_db, ruido_unit, sinal_com_ruido, bits_demodulados,
                   medida, mensagem_display, resultados_ber, resultados_ber_bpsk,
                   resultados_ber_qpsk, arquivos, retorno>>

\* PASSO 7: the BER is appended, the received text is decoded for display
\* inside try/except, and the loop moves to the next SNR value
Compare ==
    /\ pc = "compare"
    /\ medida' = bit_error_rate(bits_originais, bits_recebidos)
    /\ resultados_ber' = resultados_ber_append(resultados_ber, medida'.ber)
    /\ IF bits_to_text_raises(bits_recebidos) /\ ~except_captura("ValueError")
       THEN /\ pc' = "raised" /\ raised' = "ValueError"
            /\ UNCHANGED <<mensagem_display, idx>>
       ELSE /\ mensagem_display' = mensagem_de(bits_recebidos)
            /\ idx' = idx + 1
            /\ pc' = "loop" /\ raised' = raised
    /\ UNCHANGED <<in_vars, carrier_vars, bits, scheme, bits_originais,
                   bits_para_transmitir, simbolos_banda_base, padding_bits,
                   snr_es_n0_db, canal_snr_db, ruido_unit, sinal_com_ruido,
                   bits_demodulados, bits_recebidos, resultados_ber_bpsk,
                   resultados_ber_qpsk, arquivos, retorno>>

\* the locals of a simulate_ber_* call end with the call
LocalsDropped ==
    /\ bits_originais' = <<>> /\ bits_para_transmitir' = <<>> /\ idx' = 0
    /\ simbolos_banda_base' = NoSignal /\ padding_bits' = 0
    /\ snr_es_n0_db' = 0 /\ canal_snr_db' = 0 /\ ruido_unit' = NoNoise
    /\ sinal_com_ruido' = NoSignal /\ bits_demodulados' = <<>>
    /\ bits_recebidos' = <<>> /\ medida' = NoMedida /\ mensagem_display' = <<>>
    /\ resultados_ber' = <<>>
    /\ sinal_passabanda' = NoSignal /\ simbolos_demodulados' = NoSignal

\* return resultados_ber (BPSK); run_full_simulation goes on to the QPSK call
BpskReturn ==
    /\ pc = "loop" /\ scheme = "bpsk" /\ idx > Len(snr_db_values)
    /\ resultados_ber_bpsk' = resultados_ber
    /\ IF entry \in SimEntries
       THEN pc' = "done" /\ scheme' = scheme
       ELSE pc' = "sim_call" /\ scheme' = "qpsk"
    /\ LocalsDropped
    /\ UNCHANGED <<in_vars, raised, bits, resultados_ber_qpsk, arquivos, retorno>>

\* return resultados_ber (QPSK); run_full_simulation goes on to its report
QpskReturn ==
    /\ pc = "loop" /\ scheme = "qpsk" /\ idx > Len(snr_db_values)
    /\ resultados_ber_qpsk' = resultados_ber
    /\ pc' = (IF entry \in SimEntries THEN "done" ELSE "rfs_write")
    /\ LocalsDropped
    /\ UNCHANGED <<in_vars, raised, bits, scheme, resultados_ber_bpsk, arquivos,
                   retorno>>

\* bit_error_rate(original, received) as the entry call
BerCall ==
    /\ entry = "bit_error_rate" /\ pc = "call"
    /\ medida' = bit_error_rate(bits_originais, bits_recebidos)
    /\ pc' = "done"
    /\ UNCHANGED <<in_vars, carrier_vars, raised, bits, scheme, bits_originais,
                   bits_para_transmitir, idx, simbolos_banda_base, padding_bits,
                   snr_es_n0_db, canal_snr_db, ruido_unit, sinal_com_ruido,
                   bits_demodulados, bits_recebidos, mensagem_display,
                   resultados_ber, resultados_ber_bpsk, resultados_ber_qpsk,
                   arquivos, retorno>>

\* add_awgn(signal, snr_db) as the entry call
AwgnCall ==
    /\ entry = "add_awgn" /\ pc = "call"
    /\ \E o_re \in 1..Len(UnitNoise), o_im \in janelas_imag(simbolos_banda_base) :
          LET n == Len(simbolos_banda_base.s)
              sorteio == [re |-> Randn(o_re, n),
                          im |-> IF simbolos_banda_base.cplx THEN Randn(o_im, n)
                                                             ELSE <<>>]
          IN  /\ ruido_unit' = (IF potencia_nula(simbolos_banda_base)
                                THEN ruido_unit ELSE sorteio)
              /\ sinal_com_ruido' =
                     add_awgn(simbolos_banda_base, snr_es_n0_db, sorteio.re, sorteio.im)
    /\ canal_snr_db' = snr_es_n0_db
    /\ pc' = "done"
    /\ UNCHANGED <<in_vars, carrier_vars, raised, bits, scheme, bits_originais,
                   bits_para_transmitir, idx, simbolos_banda_base, padding_bits,
                   snr_es_n0_db, bits_demodulados, bits_recebidos, medida,
                   mensagem_display, resultados_ber, resultados_ber_bpsk,
                   resultados_ber_qpsk, arquivos, retorno>>

\* manchester_decode(encoded) as the entry call
ManchesterDecodeCall ==
    /\ entry = "manchester_decode" /\ pc = "call"
    /\ IF manchester_decode_raises(bits_demodulados)
       THEN /\ pc' = "raised" /\ raised' = "ValueError"
            /\ UNCHANGED bits_recebidos
       ELSE /\ bits_recebidos' = manchester_decode(bits_demodulados)
            /\ pc' = "done" /\ raised' = raised
    /\ UNCHANGED <<in_vars, carrier_vars, bits, scheme, bits_originais, bits_para_transmitir,
                   idx, simbolos_banda_base, padding_bits, snr_es_n0_db,
                   canal_snr_db, ruido_unit, sinal_com_ruido, bits_demodulados,
                   medida, mensagem_display, resultados_ber, resultados_ber_bpsk,
                   resultados_ber_qpsk, arquivos, retorno>>

\* bpsk_demodulate(symbols) / qpsk_demodulate(symbols, padding) as the entry
\* call
DemodulateCall ==
    /\ entry \in {"bpsk_demodulate", "qpsk_demodulate"} /\ pc = "call"
    /\ bits_demodulados' =
           (IF entry = "bpsk_demodulate"
            THEN bpsk_demodulate(sinal_com_ruido)
            ELSE qpsk_demodulate(sinal_com_ruido, padding_bits))
    /\ pc' = "done"
    /\ UNCHANGED <<in_vars, carrier_vars, raised, bits, scheme, bits_originais,
                   bits_para_transmitir, idx, simbolos_banda_base, padding_bits,
                   snr_es_n0_db, canal_snr_db, ruido_unit, sinal_com_ruido,
                   bits_recebidos, medida, mensagem_display, resultados_ber,
                   resultados_ber_bpsk, resultados_ber_qpsk, arquivos, retorno>>

(* ------------------------------ src/tests ----------------------------- *)
TestOutcome(ok) ==
    IF ok THEN pc' = "done" /\ raised' = raised
          ELSE pc' = "raised" /\ raised' = "AssertionError"

\* bits = text_to_bits(msg); recovered = bits_to_text(bits);
\* assert recovered == msg; the ValueError of bits_to_text leaves the test
TestTextBitsRoundtrip ==
    /\ entry = "test_text_bits_roundtrip" /\ pc = "call"
    /\ bits' = text_to_bits(message)
    /\ IF bits_to_text_raises(bits')
       THEN /\ pc' = "raised" /\ raised' = "ValueError"
            /\ UNCHANGED mensagem_display
       ELSE /\ mensagem_display' = bits_to_text(bits')
            /\ TestOutcome(mensagem_display' = message)
    /\ UNCHANGED <<in_vars, carrier_vars, scheme, bits_originais, bits_para_transmitir, idx,
                   simbolos_banda_base, padding_bits, snr_es_n0_db, canal_snr_db,
                   ruido_unit, sinal_com_ruido, bits_demodulados, bits_recebidos,
                   medida, resultados_ber, resultados_ber_bpsk,
                   resultados_ber_qpsk, arquivos, retorno>>

\* encoded = manchester_encode(bits); decoded = manchester_decode(encoded);
\* assert np.array_equal(bits, decoded)
TestManchesterRoundtrip ==
    /\ entry = "test_manchester_roundtrip" /\ pc = "call"
    /\ bits_para_transmitir' = manchester_encode(bits)
    /\ bits_recebidos' = manchester_decode(bits_para_transmitir')
    /\ TestOutcome(bits = bits_recebidos')
    /\ UNCHANGED <<in_vars, carrier_vars, bits, scheme, bits_originais, idx,
                   simbolos_banda_base, padding_bits, snr_es_n0_db, canal_snr_db,
                   ruido_unit, sinal_com_ruido, bits_demodulados, medida,
                   mensagem_display, resultados_ber, resultados_ber_bpsk,
                   resultados_ber_qpsk, arquivos, retorno>>

\* symbols = bpsk_modulate(bits); recovered = bpsk_demodulate(symbols)
TestBpskNoNoise ==
    /\ entry = "test_bpsk_no_noise" /\ pc = "call"
    /\ simbolos_banda_base' = bpsk_modulate(bits)
    /\ bits_recebidos' = bpsk_demodulate(simbolos_banda_base')
    /\ TestOutcome(bits = bits_recebidos')
    /\ UNCHANGED <<in_vars, carrier_vars, bits, scheme, bits_originais, bits_para_transmitir,
                   idx, padding_bits, snr_es_n0_db, canal_snr_db, ruido_unit,
                   sinal_com_ruido, bits_demodulados, medida, mensagem_display,
                   resultados_ber, resultados_ber_bpsk, resultados_ber_qpsk,
                   arquivos, retorno>>

\* symbols, padding = qpsk_modulate(bits);
\* recovered = qpsk_demodulate(symbols, padding)
TestQpskNoNoise ==
    /\ entry = "test_qpsk_no_noise" /\ pc = "call"
    /\ simbolos_banda_base' = qpsk_modulate(bits).symbols
    /\ padding_bits' = qpsk_modulate(bits).padding
    /\ bits_recebidos' = qpsk_demodulate(simbolos_banda_base', padding_bits')
    /\ TestOutcome(bits = bits_recebidos')
    /\ UNCHANGED <<in_vars, carrier_vars, bits, scheme, bits_originais, bits_para_transmitir,
                   idx, snr_es_n0_db, canal_snr_db, ruido_unit, sinal_com_ruido,
                   bits_demodulados, medida, mensagem_display, resultados_ber,
                   resultados_ber_bpsk, resultados_ber_qpsk, arquivos, retorno>>

Next ==
    \/ MainCall \/ RunFullStart \/ RunFullWrite \/ RunFullPlot
    \/ SimBegin \/ BpskModulate \/ QpskModulate \/ ConvertSNR \/ Channel
    \/ BpskDemodulate \/ QpskDemodulate \/ LineDecode \/ Compare
    \/ BpskReturn \/ QpskReturn \/ BerCall \/ AwgnCall \/ ManchesterDecodeCall
    \/ DemodulateCall \/ AddCarrier \/ RemoveCarrier
    \/ TestManchesterRoundtrip \/ TestBpskNoNoise \/ TestQpskNoNoise
    \/ TestTextBitsRoundtrip

Spec == Init /\ [][Next]_vars

(* ------------------------------ properties ---------------------------- *)
IsBits(s) == \A k \in 1..Len(s) : s[k] \in {0, 1}

\* the simulate loop is past the channel of the SNR value at idx
AfterChannel == pc \in {"uncarrier", "demod", "decode", "compare"}

\* the simulate loop holds the symbols of the SNR value at idx
AfterModulate ==
    pc \in {"carrier", "convert", "awgn", "uncarrier", "demod", "decode", "compare"}

\* C1: Manchester round trip: decoding the Manchester encoding of a bit
\* sequence over {0,1} (the empty one included) gives the sequence back, same
\* length, same elements; in the round-trip test and for the buffer that
\* simulate_ber_* encodes.
C1_ManchesterRoundTrip ==
    /\ (entry = "test_manchester_roundtrip" /\ pc # "call") =>
          /\ pc = "done"
          /\ Len(bits_recebidos) = Len(bits)
          /\ \A k \in 1..Len(bits) : bits_recebidos[k] = bits[k]
    /\ (entry \in SimEntries /\ use_manchester /\ IsBits(bits)
            /\ pc \notin {"call", "done"}) =>
          /\ ~manchester_decode_raises(bits_para_transmitir)
          /\ manchester_decode(bits_para_transmitir) = bits

C1_Witness ==
    /\ entry = "test_manchester_roundtrip" /\ pc = "done"
    /\ bits = <<1, 0, 0>> /\ bits_para_transmitir = <<0, 1, 1, 0, 1, 0>>

\* C2: QPSK round trip without noise: for every bit sequence over {0,1}, of
\* even or odd length, demodulating the symbols of qpsk_modulate with the
\* padding it reported returns the sequence; [1,0,1] gives 2 symbols and
\* padding 1.
C2_QpskRoundTrip ==
    (entry = "test_qpsk_no_noise" /\ pc # "call") =>
        /\ pc = "done"
        /\ bits_recebidos = bits
        /\ (bits = <<1, 0, 1>>) =>
              (Len(simbolos_banda_base.s) = 2 /\ padding_bits = 1)

C2_Witness ==
    /\ entry = "test_qpsk_no_noise" /\ pc = "done"
    /\ bits = <<1, 0, 1>> /\ bits_recebidos = <<1, 0, 1>> /\ padding_bits = 1

\* C3: BPSK round trip without noise: for every bit sequence over {0,1},
\* bpsk_demodulate(bpsk_modulate(b)) is b.
C3_BpskRoundTrip ==
    (entry = "test_bpsk_no_noise" /\ pc # "call") =>
        (pc = "done" /\ bits_recebidos = bits)

C3_Witness ==
    /\ entry = "test_bpsk_no_noise" /\ pc = "done"
    /\ bits = <<0, 1, 1>> /\ bits_recebidos = <<0, 1, 1>>

\* C4: the SNR that add_awgn receives is the Eb/N0 of the sweep converted to
\* Es/N0: Eb/N0 - 10*log10(2) for BPSK with Manchester, Eb/N0 for BPSK without,
\* Eb/N0 for QPSK with Manchester, Eb/N0 + 10*log10(2) for QPSK without
\* (10*log10(2) dB is one SNR unit of the model).
C4_EsN0Conversion ==
    AfterChannel =>
        canal_snr_db =
            snr_db_values[idx]
              + (IF scheme = "bpsk" THEN (IF use_manchester THEN -1 ELSE 0)
                                    ELSE (IF use_manchester THEN 0 ELSE 1))

C4_Witness ==
    /\ entry = "simulate_ber_qpsk" /\ ~use_manchester /\ pc = "demod"
    /\ snr_db_values[idx] = 3 /\ canal_snr_db = 4
    /\ ruido_unit # NoNoise

\* C5: the campaign runner accepts the trial count that main passes
\* (iterations=50) and returns per scheme the mean BER over that many trials:
\* the call made by main does not fail and delivers one BER per SNR and scheme.
C5_CampaignAcceptsIterations ==
    (entry = "main" /\ pc # "call") =>
        /\ raised = "none"
        /\ (pc = "done" =>
               /\ Len(retorno) = 3
               /\ Len(retorno[2]) = Len(snr_db_values)
               /\ Len(retorno[3]) = Len(snr_db_values))

\* C6: within one run over the sweep the noise realization is drawn once and
\* reused: the unit samples added at an SNR point are those added at the
\* previous, different SNR point of the sweep.
C6_NoiseReusedAcrossSweep ==
    [][(pc = "awgn" /\ idx > 1 /\ snr_db_values[idx] # snr_db_values[idx - 1]
            /\ pc' = "demod")
        => ruido_unit' = ruido_unit]_vars

\* C7: bit_error_rate compares the first min(len(original), len(received))
\* positions: total is that length, errors the number of those positions that
\* differ, BER errors/total, and (0, 0, 0) when that length is 0.
C7_BerAccounting ==
    ((entry = "bit_error_rate" /\ pc = "done") \/ (pc = "loop" /\ idx > 1)) =>
        LET n == Min(Len(bits_originais), Len(bits_recebidos))
            e == Cardinality({k \in 1..n : bits_originais[k] # bits_recebidos[k]})
        IN  /\ medida.total = n
            /\ medida.erros = e
            /\ medida.ber = (IF n = 0 THEN <<0, 1>> ELSE <<e, n>>)

C7_Witness ==
    /\ entry = "bit_error_rate" /\ pc = "done"
    /\ bits_originais = <<1, 0>> /\ bits_recebidos = <<0>>
    /\ medida = [ber |-> <<1, 1>>, erros |-> 1, total |-> 1]

IsRate(b) == b[2] > 0 /\ 0 <= b[1] /\ b[1] <= b[2]

\* C8: every BER value produced lies in [0, 1]: each element of the lists of
\* simulate_ber_bpsk / simulate_ber_qpsk and of the arrays returned by
\* run_full_simulation, and the value bit_error_rate returns.
C8_BerBounds ==
    /\ IsRate(medida.ber) /\ medida.erros <= medida.total
    /\ \A k \in 1..Len(resultados_ber) : IsRate(resultados_ber[k])
    /\ \A k \in 1..Len(resultados_ber_bpsk) : IsRate(resultados_ber_bpsk[k])
    /\ \A k \in 1..Len(resultados_ber_qpsk) : IsRate(resultados_ber_qpsk[k])
    /\ (retorno # <<>>) =>
          /\ \A k \in 1..Len(retorno[2]) : IsRate(retorno[2][k])
          /\ \A k \in 1..Len(retorno[3]) : IsRate(retorno[3][k])

C8_Witness ==
    /\ entry = "run_full_simulation" /\ pc = "done"
    /\ \E k \in 1..Len(retorno[2]) : retorno[2][k][1] > 0
    /\ \E k \in 1..Len(retorno[3]) : retorno[3][k][1] > 0

\* C9: a bit buffer holding a value other than 0 or 1 makes the pipeline stage
\* fail, and the error aborts simulate_ber_bpsk / simulate_ber_qpsk: no BER is
\* produced from the invalid buffer.
C9_InvalidBitsFatal ==
    (entry \in SimEntries /\ ~IsBits(bits)) =>
        /\ resultados_ber = <<>>
        /\ resultados_ber_bpsk = <<>> /\ resultados_ber_qpsk = <<>>
        /\ ~AfterModulate

\* C10: qpsk_modulate on n bits reports padding n mod 2 and returns ceil(n/2)
\* symbols; symbol k carries the pair (b[2k-1], b[2k]) (imaginary part negative
\* iff the first bit is 1, real part negative iff the second is 1), and for odd
\* n the last symbol carries (last bit, 0).
QpskInput == IF entry \in TestEntries THEN bits ELSE bits_para_transmitir

C10_QpskPadding ==
    ((entry = "test_qpsk_no_noise" /\ pc = "done")
        \/ (scheme = "qpsk" /\ AfterModulate)) =>
        LET b == QpskInput
            n == Len(b)
            s == simbolos_banda_base.s
        IN  /\ padding_bits = n % 2
            /\ Len(s) = (n + 1) \div 2
            /\ \A k \in 1..Len(s) :
                  /\ s[k].re # 0 /\ s[k].im # 0
                  /\ (s[k].im < 0) <=> (b[2 * k - 1] = 1)
                  /\ (s[k].re < 0) <=> (IF 2 * k <= n THEN b[2 * k] = 1 ELSE FALSE)

C10_Witness ==
    /\ entry = "test_qpsk_no_noise" /\ pc = "done"
    /\ bits = <<0, 1, 1>> /\ padding_bits = 1
    /\ Len(simbolos_banda_base.s) = 2
    /\ simbolos_banda_base.s[2].re > 0 /\ simbolos_banda_base.s[2].im < 0

AllZero(signal) ==
    \A k \in 1..Len(signal.s) : signal.s[k].re = 0 /\ signal.s[k].im = 0

\* C11: add_awgn on a signal, real or complex, whose every sample is zero
\* returns, for any SNR, a signal of the same length and kind with every sample
\* zero; no error is raised and no noise sample is drawn.
C11_ZeroSignalUnchanged ==
    (entry = "add_awgn" /\ pc # "call" /\ AllZero(simbolos_banda_base)) =>
        /\ pc = "done" /\ raised = "none"
        /\ sinal_com_ruido.cplx = simbolos_banda_base.cplx
        /\ Len(sinal_com_ruido.s) = Len(simbolos_banda_base.s)
        /\ AllZero(sinal_com_ruido)
        /\ ruido_unit = NoNoise

C11_Witness ==
    /\ entry = "add_awgn" /\ pc = "done"
    /\ simbolos_banda_base.cplx /\ Len(simbolos_banda_base.s) = 2
    /\ AllZero(simbolos_banda_base) /\ canal_snr_db = -1
    /\ Len(sinal_com_ruido.s) = 2

\* characters that fit the 8-bit character width
LegalText(text) == \A k \in 1..Len(text) : text[k] \in 0..255

\* C12: text round trip: for every message of legal characters (code points
\* that fit the 8-bit character width), bits_to_text(text_to_bits(m)) is m.
C12_TextRoundTrip ==
    (entry = "test_text_bits_roundtrip" /\ pc # "call" /\ LegalText(message)) =>
        /\ pc = "done" /\ raised = "none"
        /\ mensagem_display = message

C12_Witness ==
    /\ entry = "test_text_bits_roundtrip" /\ pc = "done"
    /\ message = <<72, 233>> /\ mensagem_display = <<72, 233>>
    /\ bits = <<0, 1, 0, 0, 1, 0, 0, 0, 1, 1, 1, 0, 1, 0, 0, 1>>

\* C13: text_to_bits gives exactly 8 bits per character: for every input
\* string the output has 8 * len(text) elements, each 0 or 1.
C13_FixedCharWidth ==
    (entry \in {"test_text_bits_roundtrip", "run_full_simulation"} /\ pc # "call") =>
        /\ Len(bits) = 8 * Len(message)
        /\ IsBits(bits)

\* the lists a finished entry call has returned agree in length with the sweep
C14_Returned ==
    /\ (entry = "simulate_ber_bpsk" /\ pc = "done") =>
          Len(resultados_ber_bpsk) = Len(snr_db_values)
    /\ (entry = "simulate_ber_qpsk" /\ pc = "done") =>
          Len(resultados_ber_qpsk) = Len(snr_db_values)
    /\ (entry = "run_full_simulation" /\ pc = "done") =>
          /\ retorno = <<snr_db_values, resultados_ber_bpsk, resultados_ber_qpsk>>
          /\ Len(retorno[2]) = Len(retorno[1])
          /\ Len(retorno[3]) = Len(retorno[1])

\* the BER measured while the loop is at sweep position idx lands at position
\* idx of the list, the earlier positions stay, and the list is returned as is
C14_Step ==
    /\ (pc = "compare") =>
          /\ Len(resultados_ber') = idx
          /\ resultados_ber'[idx] = bit_error_rate(bits_originais, bits_recebidos).ber
          /\ \A k \in 1..(idx - 1) : resultados_ber'[k] = resultados_ber[k]
    /\ (pc = "loop" /\ idx > Len(snr_db_values)) =>
          /\ Len(resultados_ber) = Len(snr_db_values)
          /\ (IF scheme = "bpsk" THEN resultados_ber_bpsk' ELSE resultados_ber_qpsk')
                 = resultados_ber

\* C14: simulate_ber_bpsk and simulate_ber_qpsk return one BER per element of
\* the sweep, the i-th being the one computed for the i-th sweep value;
\* run_full_simulation returns the sweep and the two BER arrays with equal
\* length and in the order of the sweep.
C14_SnrOrderPreserved == [](C14_Returned) /\ [][C14_Step]_vars

C14_Witness ==
    /\ entry = "run_full_simulation" /\ pc = "done"
    /\ retorno[1] = <<0, 3>>
    /\ Len(retorno[2]) = 2 /\ retorno[2][1] # retorno[2][2]
    /\ Len(retorno[3]) = 2 /\ retorno[3][1] # retorno[3][2]

\* C15: when bits_to_text fails on the recovered bits (their count is not a
\* multiple of 8), simulate_ber_bpsk / simulate_ber_qpsk catch the failure,
\* show the placeholder, have the BER of that SNR recorded and go on with the
\* sweep: no simulate call is left by an error of the display decoding.
C15_DisplayFailureCaught ==
    /\ (pc = "loop" /\ idx > 1 /\ bits_to_text_raises(bits_recebidos)) =>
          /\ raised = "none"
          /\ Len(resultados_ber) = idx - 1
          /\ resultados_ber[idx - 1] = medida.ber
          /\ mensagem_display = ErroDecodificar
    /\ (entry \in SimEntries \cup {"run_full_simulation"} /\ pc = "raised") =>
          /\ scheme = "qpsk" /\ ~IsBits(bits)
          /\ resultados_ber = <<>>

C15_Witness ==
    /\ entry = "simulate_ber_bpsk" /\ pc = "loop" /\ idx = 3
    /\ bits_to_text_raises(bits_recebidos)
    /\ Len(resultados_ber) = 2
    /\ mensagem_display = ErroDecodificar

\* C16: manchester_decode on a coded sequence of odd length fails with an
\* error and returns no bits; on every even length, 0 included, it returns
\* exactly half as many bits.
C16_DecodeRejectsOddLength ==
    (entry = "manchester_decode" /\ pc # "call") =>
        IF Len(bits_demodulados) % 2 = 1
        THEN pc = "raised" /\ raised = "ValueError" /\ bits_recebidos = <<>>
        ELSE /\ pc = "done" /\ raised = "none"
             /\ 2 * Len(bits_recebidos) = Len(bits_demodulados)

C16_Witness ==
    /\ entry = "manchester_decode" /\ pc = "raised"
    /\ Len(bits_demodulados) = 3 /\ raised = "ValueError"

Sign(x) == IF x > 0 THEN 1 ELSE IF x < 0 THEN -1 ELSE 0

\* the channel output has, component by component, the sign of its input
NoSignChanged ==
    /\ Len(sinal_com_ruido.s) = Len(simbolos_banda_base.s)
    /\ \A k \in 1..Len(simbolos_banda_base.s) :
          /\ Sign(sinal_com_ruido.s[k].re) = Sign(simbolos_banda_base.s[k].re)
          /\ Sign(sinal_com_ruido.s[k].im) = Sign(simbolos_banda_base.s[k].im)

\* C17: in each of the four baseband configurations (BPSK or QPSK, Manchester
\* on or off), when the noise of the channel changes the sign of no real or
\* imaginary symbol component, the pipeline recovers the original bit
\* sequence exactly and the BER recorded for that SNR is 0.
C17_NoiseFreeRecovery ==
    (pc = "loop" /\ idx > 1 /\ IsBits(bits_originais) /\ NoSignChanged) =>
        /\ bits_recebidos = bits_originais
        /\ medida.erros = 0 /\ medida.ber[1] = 0
        /\ resultados_ber[idx - 1][1] = 0

C17_Witness ==
    /\ entry = "simulate_ber_qpsk" /\ ~use_manchester
    /\ pc = "loop" /\ idx > 1
    /\ bits_originais = <<1, 0>> /\ bits_recebidos = <<1, 0>>
    /\ NoSignChanged
    /\ sinal_com_ruido # simbolos_banda_base
    /\ medida = [ber |-> <<0, 2>>, erros |-> 0, total |-> 2]

\* C18: run_full_simulation writes the results table and the chart exactly
\* once each, the table first, and only after the BPSK and the QPSK simulation
\* have both returned a BER for every SNR of the sweep; a call that ends with
\* an error has written nothing.
C18_ReportOnceAfterSimulation ==
    /\ arquivos \in {<<>>, <<"ber_results_bpsk_qpsk.txt">>,
                     <<"ber_results_bpsk_qpsk.txt", "ber_curve_bpsk_qpsk.png">>}
    /\ (arquivos # <<>>) =>
          /\ entry \in {"main", "run_full_simulation"}
          /\ pc = (IF Len(arquivos) = 1 THEN "rfs_plot" ELSE "done")
          /\ raised = "none"
          /\ Len(resultados_ber_bpsk) = Len(snr_db_values)
          /\ Len(resultados_ber_qpsk) = Len(snr_db_values)
    /\ (entry = "run_full_simulation" /\ pc = "done") => Len(arquivos) = 2
    /\ (raised # "none") => arquivos = <<>>

C18_Witness ==
    /\ entry = "run_full_simulation" /\ pc = "done"
    /\ message = <<72, 105>> /\ Len(snr_db_values) = 2
    /\ arquivos = <<"ber_results_bpsk_qpsk.txt", "ber_curve_bpsk_qpsk.png">>
    /\ Len(resultados_ber_bpsk) = 2 /\ Len(resultados_ber_qpsk) = 2

\* C20: for every even-length coded sequence over {0,1}, manchester_decode
\* outputs for pair k the second element of the pair whatever the first is:
\* (1,0) -> 0, (0,1) -> 1, (0,0) -> 0, (1,1) -> 1; the pairs without a
\* transition raise no error.
C20_DecodeSecondOfPair ==
    /\ (entry = "manchester_decode" /\ pc # "call" /\ IsBits(bits_demodulados)
            /\ Len(bits_demodulados) % 2 = 0) =>
          /\ pc = "done" /\ raised = "none"
          /\ Len(bits_recebidos) = Len(bits_demodulados) \div 2
          /\ \A k \in 1..Len(bits_recebidos) :
                bits_recebidos[k] = bits_demodulados[2 * k]
    /\ (use_manchester /\ pc = "compare") =>
          /\ Len(bits_recebidos) = Len(bits_demodulados) \div 2
          /\ \A k \in 1..Len(bits_recebidos) :
                bits_recebidos[k] = bits_demodulados[2 * k]

C20_Witness ==
    /\ entry = "manchester_decode" /\ pc = "done"
    /\ bits_demodulados = <<0, 0, 1, 1>> /\ bits_recebidos = <<0, 1>>

\* a simulate_ber_* call is inside its body, between PASSO 1 and the return
InSimulate ==
    pc \in {"loop", "carrier", "convert", "awgn", "uncarrier", "demod", "decode",
            "compare"}

\* C21: for every bit sequence b over {0,1} of length n, manchester_encode
\* returns 2n bits, the k-th pair being (1 - b[k], b[k]): every pair is a
\* transition and the output holds exactly n zeros and n ones.
C21_EncodeShape ==
    (/\ IsBits(bits)
     /\ \/ entry = "test_manchester_roundtrip" /\ pc = "done"
        \/ use_manchester /\ InSimulate) =>
        LET e == bits_para_transmitir
            n == Len(bits)
        IN  /\ Len(e) = 2 * n
            /\ \A k \in 1..n :
                  /\ e[2 * k - 1] = 1 - bits[k]
                  /\ e[2 * k] = bits[k]
                  /\ e[2 * k - 1] # e[2 * k]
            /\ Cardinality({j \in 1..Len(e) : e[j] = 0}) = n
            /\ Cardinality({j \in 1..Len(e) : e[j] = 1}) = n

C21_Witness ==
    /\ entry = "simulate_ber_bpsk" /\ use_manchester /\ pc = "loop"
    /\ bits = <<0, 1>> /\ bits_para_transmitir = <<1, 0, 0, 1>>

\* C22: qpsk_demodulate emits for every received symbol exactly one bit pair:
\* real >= 0 and imag >= 0 -> (0,0); real < 0 and imag >= 0 -> (0,1); real < 0
\* and imag < 0 -> (1,1); otherwise (1,0), zero counting as non-negative; the
\* pairs are concatenated in symbol order and the last padding bits dropped,
\* so the output has 2 * len(symbols) - padding bits (padding being at most
\* the number of bits there are).
C22_QpskDecisionRegions ==
    (/\ \/ entry = "qpsk_demodulate" /\ pc = "done"
        \/ scheme = "qpsk" /\ pc \in {"decode", "compare"}
     /\ padding_bits <= 2 * Len(simbolos_recebidos.s)) =>
        LET s == simbolos_recebidos.s
            b == bits_demodulados
        IN  /\ Len(b) = 2 * Len(s) - padding_bits
            /\ \A j \in 1..Len(b) :
                  LET p == s[(j + 1) \div 2]
                      par == IF p.re >= 0 /\ p.im >= 0 THEN <<0, 0>>
                             ELSE IF p.re < 0 /\ p.im >= 0 THEN <<0, 1>>
                             ELSE IF p.re < 0 /\ p.im < 0 THEN <<1, 1>>
                             ELSE <<1, 0>>
                  IN  b[j] = par[2 - (j % 2)]

C22_Witness ==
    /\ entry = "qpsk_demodulate" /\ pc = "done" /\ padding_bits = 1
    /\ sinal_com_ruido.s = <<[re |-> 0, im |-> -FP], [re |-> -FP, im |-> 0]>>
    /\ bits_demodulados = <<1, 0, 0>>

\* C23: bpsk_modulate maps bit 0 to the symbol -1 and bit 1 to +1, one real
\* symbol per bit; bpsk_demodulate decides 1 for every symbol >= 0, a symbol
\* of exactly zero included, and 0 for every symbol < 0, one bit per symbol.
C23_BpskMappingAndTieBreak ==
    /\ (/\ scheme = "bpsk" /\ IsBits(bits_para_transmitir)
        /\ pc \in {"convert", "awgn", "demod", "decode", "compare"}) =>
          /\ ~simbolos_banda_base.cplx
          /\ Len(simbolos_banda_base.s) = Len(bits_para_transmitir)
          /\ \A k \in 1..Len(bits_para_transmitir) :
                /\ simbolos_banda_base.s[k].im = 0
                /\ simbolos_banda_base.s[k].re =
                      (IF bits_para_transmitir[k] = 0 THEN -FP ELSE FP)
    /\ (entry = "bpsk_demodulate" /\ pc = "done") =>
          /\ Len(bits_demodulados) = Len(sinal_com_ruido.s)
          /\ \A k \in 1..Len(sinal_com_ruido.s) :
                /\ sinal_com_ruido.s[k].re >= 0 => bits_demodulados[k] = 1
                /\ sinal_com_ruido.s[k].re < 0 => bits_demodulados[k] = 0

C23_Witness ==
    /\ entry = "bpsk_demodulate" /\ pc = "done"
    /\ sinal_com_ruido.s = <<[re |-> 0, im |-> 0], [re |-> -FP, im |-> 0]>>
    /\ bits_demodulados = <<1, 0>>

Diff(x, y) == IF x # y THEN 1 ELSE 0

\* number of components (real, imaginary) for which p and q lie on different
\* sides of the decision boundary, zero lying on the non-negative side
RegionsChanged(p, q) ==
    Diff(p.re < 0, q.re < 0) + Diff(p.im < 0, q.im < 0)

\* C24: the QPSK labelling is a Gray code: two constellation points in
\* adjacent quadrants carry pairs that differ in exactly one bit, two in
\* diagonal quadrants pairs that differ in both; so in the pipeline a received
\* symbol that fell into an adjacent decision region gives exactly one wrong
\* bit of its pair, one that fell into the diagonal region two, and one that
\* stayed in its region none. (The labelling does not depend on the state:
\* it is looked at once, when a call starts.)
C24_GrayCoding ==
    /\ pc = "call" =>
          \A a0, a1, b0, b1 \in {0, 1} :
              RegionsChanged(qpsk_ponto(a0, a1), qpsk_ponto(b0, b1)) =
                  Diff(a0, b0) + Diff(a1, b1)
    /\ (/\ scheme = "qpsk" /\ entry \in SimEntries \cup {"run_full_simulation"}
        /\ pc \in {"decode", "compare"} /\ IsBits(bits_para_transmitir)) =>
          \A k \in 1..Len(simbolos_recebidos.s) :
              2 * k <= Len(bits_demodulados) =>
                  Diff(bits_demodulados[2 * k - 1], bits_para_transmitir[2 * k - 1])
                  + Diff(bits_demodulados[2 * k], bits_para_transmitir[2 * k])
                  = RegionsChanged(simbolos_banda_base.s[k], simbolos_recebidos.s[k])

C24_Witness ==
    /\ scheme = "qpsk" /\ entry = "simulate_ber_qpsk" /\ pc = "compare"
    /\ bits_para_transmitir = <<1, 0>>
    /\ RegionsChanged(simbolos_banda_base.s[1], sinal_com_ruido.s[1]) = 1
    /\ bits_demodulados \in {<<0, 0>>, <<1, 1>>}

\* a symbol stream modulated from bits in {0,1} is at hand
ValidModulated ==
    /\ entry \in SimEntries \cup {"run_full_simulation"}
    /\ pc \in {"convert", "awgn", "demod", "decode", "compare"}
    /\ IsBits(bits_para_transmitir)

Abs(x) == IF x < 0 THEN -x ELSE x

\* the squared magnitude x is 1 as far as components a, b of the working
\* precision can tell: growing each component by one unit passes 1
UnitWithinRounding(x, a, b) ==
    /\ x <= FP * FP
    /\ FP * FP < (Abs(a) + 1) * (Abs(a) + 1) + (Abs(b) + 1) * (Abs(b) + 1)

AwgnReturned ==
    \/ entry = "add_awgn" /\ pc = "done"
    \/ entry \in SimEntries \cup {"run_full_simulation"} /\ AfterChannel

\* mean of |x|^2 over a non-empty signal, scale FP * FP
MeanPower(x) ==
    SumSeq([k \in 1..Len(x.s) |-> x.s[k].re * x.s[k].re + x.s[k].im * x.s[k].im])
        \div Len(x.s)

\* d * d is, in the working precision, the c-th part of N = P / 10^(s/10)
\* (one unit of s is a factor 2): c * d^2 <= P / 2^s < c * (d + 1)^2
IsNoiseDeviation(d, c, P, s) ==
    LET up   == Pow2(s)
        down == Pow2(-s)
    IN  /\ c * d * d * up <= P * down
        /\ P * down < c * (d + 1) * (d + 1) * up

\* C26: for a signal of mean power P > 0 and a symbol-level SNR of s dB,
\* add_awgn uses the noise power N = P / 10^(s/10); a real signal gets real
\* noise, unit samples scaled by sqrt(N), and a complex signal gets separately
\* drawn real and imaginary unit samples each scaled by sqrt(N/2); the output
\* has the length of the input and is real when the input is real.
C26_NoiseCalibration ==
    AwgnReturned =>
        LET x == sinal_transmitido
            y == sinal_com_ruido
        IN  /\ Len(y.s) = Len(x.s)
            /\ y.cplx = x.cplx
            /\ ~x.cplx => \A k \in 1..Len(y.s) : y.s[k].im = 0
            /\ (Len(x.s) > 0 /\ MeanPower(x) > 0) =>
                  LET P  == MeanPower(x)
                      c  == IF x.cplx THEN 2 ELSE 1
                      \* where to look for the deviation
                      d0 == np_sqrt((P * Pow2(-canal_snr_db))
                                        \div (c * Pow2(canal_snr_db)))
                  IN  \E d \in (d0 - 1)..(d0 + 1) :
                          /\ d >= 0
                          /\ IsNoiseDeviation(d, c, P, canal_snr_db)
                          /\ \A k \in 1..Len(x.s) :
                                /\ y.s[k].re - x.s[k].re =
                                      QuoT(d * ruido_unit.re[k], FP)
                                /\ x.cplx =>
                                      y.s[k].im - x.s[k].im =
                                          QuoT(d * ruido_unit.im[k], FP)

C26_Witness ==
    /\ entry = "simulate_ber_qpsk" /\ pc = "demod"
    /\ simbolos_banda_base.cplx /\ Len(simbolos_banda_base.s) = 1
    /\ canal_snr_db = 1
    /\ ruido_unit.re[1] = 30 /\ ruido_unit.im[1] = -15
    /\ sinal_com_ruido.s[1].re # simbolos_banda_base.s[1].re
    /\ sinal_com_ruido.s[1].im # simbolos_banda_base.s[1].im

\* the position that follows position p inside one pass of the loop over the
\* SNR values: "loop" stands before the modulator, every other position
\* before the stage it names
ProximaEtapa(p) ==
    CASE p = "loop"      -> IF use_carrier THEN "carrier" ELSE "convert"
      [] p = "carrier"   -> "convert"
      [] p = "convert"   -> "awgn"
      [] p = "awgn"      -> IF use_carrier THEN "uncarrier" ELSE "demod"
      [] p = "uncarrier" -> "demod"
      [] p = "demod"     -> "decode"
      [] p = "decode"    -> "compare"
      [] p = "compare"   -> "loop"

\* the carrier stages are part of no run of main / run_full_simulation, and
\* the buffer sent is line coded exactly when use_manchester is set
C27_Flags ==
    /\ entry \in {"main", "run_full_simulation"} =>
          ~use_carrier /\ pc \notin {"carrier", "uncarrier"}
    /\ pc \in {"carrier", "uncarrier"} => use_carrier
    /\ (InSimulate /\ bits_originais # <<>>) =>
          (use_manchester <=> Len(bits_para_transmitir) = 2 * Len(bits_originais))

\* one step of a simulate call
C27_Step ==
    /\ (InSimulate /\ pc' # pc) =>
          \/ pc' = ProximaEtapa(pc)
          \/ pc' = "raised" /\ pc \in {"loop", "decode"}
          \/ pc = "loop" /\ idx > Len(snr_db_values) /\ ~InSimulate'
    /\ sinal_passabanda' # sinal_passabanda =>
          \/ pc = "carrier" /\ use_carrier /\ pc' = "convert"
          \/ ~InSimulate'
    /\ simbolos_demodulados' # simbolos_demodulados =>
          \/ pc = "uncarrier" /\ use_carrier /\ pc' = "demod"
          \/ ~InSimulate'
    /\ (pc = "carrier" /\ pc' # pc) =>
          Len(sinal_passabanda'.s) =
              amostras_por_simbolo * Len(simbolos_banda_base.s)
    /\ (pc = "uncarrier" /\ pc' # pc) =>
          /\ simbolos_demodulados'.cplx
          /\ Len(simbolos_demodulados'.s) = Len(simbolos_banda_base.s)
    /\ (pc = "decode" /\ pc' = "compare") =>
          IF use_manchester
          THEN 2 * Len(bits_recebidos') = Len(bits_demodulados)
          ELSE bits_recebidos' = bits_demodulados
    /\ (pc = "demod" /\ pc' = "decode" /\ scheme = "bpsk") =>
          /\ Len(bits_demodulados') = Len(simbolos_recebidos.s)
          /\ \A k \in 1..Len(simbolos_recebidos.s) :
                bits_demodulados'[k] =
                    (IF simbolos_recebidos.s[k].re >= 0 THEN 1 ELSE 0)

\* C27: for each SNR value the stages run strictly in the order modulate ->
\* (add carrier) -> Eb/N0 conversion -> add noise -> (remove carrier) ->
\* demodulate -> (line decode) -> compare; add_carrier and remove_carrier run
\* exactly in the calls made with use_carrier, so one runs if and only if the
\* other does, and never in run_full_simulation; the line decoding runs if
\* and only if the line encoding ran; and the BPSK path decides on the real
\* part alone of a complex received stream.
C27_StageOrder == [](C27_Flags) /\ [][C27_Step]_vars

C27_Witness ==
    /\ entry = "simulate_ber_bpsk" /\ use_carrier /\ use_manchester
    /\ pc = "compare"
    /\ simbolos_demodulados.cplx
    /\ \E k \in 1..Len(simbolos_demodulados.s) :
          simbolos_demodulados.s[k].im # 0
    /\ Len(bits_demodulados) = 2 /\ Len(bits_recebidos) = 1

\* a simulate call on the baseband path with an input over {0,1}
ValidBaseband ==
    /\ entry \in SimEntries \cup {"main", "run_full_simulation"}
    /\ ~use_carrier /\ IsBits(bits)

\* C28: on the baseband path, for every input of n bits over {0,1} and every
\* SNR, the recovered bit sequence has exactly n bits whether BPSK or QPSK is
\* used, with or without Manchester, and the BER compares n bits; with QPSK
\* and Manchester the coded length 2n is even, so the padding recorded is 0
\* and manchester_decode is never handed an odd-length sequence (no simulate
\* call on such an input is left by an error).
C28_LengthPreserved ==
    ValidBaseband =>
        /\ raised # "ValueError"
        /\ pc = "compare" => Len(bits_recebidos) = Len(bits_originais)
        /\ (pc = "loop" /\ idx > 1) =>
              /\ Len(bits_recebidos) = Len(bits_originais)
              /\ medida.total = Len(bits_originais)
        /\ (use_manchester /\ InSimulate) =>
              Len(bits_para_transmitir) = 2 * Len(bits_originais)
        /\ (use_manchester /\ scheme = "qpsk" /\ AfterModulate) =>
              /\ padding_bits = 0
              /\ 2 * Len(simbolos_banda_base.s) = Len(bits_para_transmitir)
        /\ (use_manchester /\ pc = "decode") => Len(bits_demodulados) % 2 = 0

C28_Witness ==
    /\ entry = "simulate_ber_qpsk" /\ use_manchester /\ ~use_carrier
    /\ bits \in {<<0>>, <<1>>}
    /\ pc = "loop" /\ idx = 2
    /\ padding_bits = 0 /\ Len(bits_demodulados) = 2
    /\ Len(bits_recebidos) = 1 /\ medida.total = 1

\* the bit that the sign of the real part of a received symbol stands for
RealPartBit(p) == IF p.re < 0 THEN 1 ELSE 0

\* C29: in simulate_ber_qpsk with Manchester, every recovered information
\* bit is 1 exactly when the real part of the received symbol of the same
\* position is negative, one bit per symbol; the recovered bits and the
\* error count of the BER are therefore determined by the signs of the real
\* parts alone, whatever the imaginary parts are.
C29_QpskManchesterRealPartOnly ==
    (/\ scheme = "qpsk" /\ use_manchester
     /\ entry \in SimEntries \cup {"main", "run_full_simulation"}) =>
        /\ (pc = "compare" \/ (pc = "loop" /\ idx > 1)) =>
              /\ Len(bits_recebidos) = Len(simbolos_recebidos.s)
              /\ \A k \in 1..Len(bits_recebidos) :
                    bits_recebidos[k] = RealPartBit(simbolos_recebidos.s[k])
        /\ (pc = "loop" /\ idx > 1) =>
              /\ medida.total = Len(simbolos_recebidos.s)
              /\ medida.erros =
                    Cardinality({k \in 1..Len(simbolos_recebidos.s) :
                        bits_originais[k] # RealPartBit(simbolos_recebidos.s[k])})

C29_Witness ==
    /\ entry = "simulate_ber_qpsk" /\ use_manchester /\ ~use_carrier
    /\ pc = "loop" /\ idx = 2
    /\ Len(sinal_com_ruido.s) = 2
    /\ sinal_com_ruido.s[1].re < 0 /\ sinal_com_ruido.s[1].im > 0
    /\ sinal_com_ruido.s[2].re > 0 /\ sinal_com_ruido.s[2].im < 0
    /\ bits_recebidos = <<1, 0>>

\* a simulate call is running, on its own or inside run_full_simulation
Simulating ==
    /\ entry \in SimEntries \cup {"main", "run_full_simulation"}
    /\ InSimulate

\* inside a simulate call the reference of every comparison is the caller's
\* array, and in run_full_simulation that array is text_to_bits(message)
\* from the first simulate call to the end
C30_Reference ==
    /\ Simulating => bits_originais = bits
    /\ (Simulating /\ pc = "loop" /\ idx > 1) =>
          medida = bit_error_rate(bits, bits_recebidos)
    /\ (/\ entry \in {"main", "run_full_simulation"}
        /\ pc \in {"sim_call", "rfs_write", "rfs_plot", "done"} \/ InSimulate) =>
          bits = text_to_bits(message)

\* no step of a simulate call, and no step of run_full_simulation after
\* text_to_bits, changes the caller's array
C30_Step ==
    /\ entry \in SimEntries => bits' = bits
    /\ (entry \in {"main", "run_full_simulation"} /\ pc \notin {"call", "rfs_call"}) =>
          bits' = bits

\* C30: simulate_ber_bpsk and simulate_ber_qpsk never modify the caller's
\* bits array: not when they copy and encode it, not at any SNR step; so in
\* run_full_simulation the QPSK simulation receives, and every BER comparison
\* uses, exactly the bit sequence that text_to_bits produced.
C30_BitsNeverModified == [](C30_Reference) /\ [][C30_Step]_vars

C30_Witness ==
    /\ entry = "run_full_simulation" /\ scheme = "qpsk"
    /\ pc = "loop" /\ idx = 2
    /\ message = <<72, 105>> /\ bits = text_to_bits(message)
    /\ bits_originais = bits /\ resultados_ber_bpsk # <<>>
    /\ medida.erros > 0

=============================================================================
